---- MODULE Spec2Model ----
(***************************************************************************)
(* COPD (GOLD grade / ABE group) and asthma (GINA severity) staging        *)
(* scripts: computeCOPD, computeAsthmaStage and the asthma wizard          *)
(* navigation, as state machines over the DOM state that the scripts read  *)
(* and write.                                                              *)
(*                                                                         *)
(* The repository carries two copies of each script: src/copd.js and       *)
(* src/unnamed/part_000 (COPD), src/asthma.js and src/unnamed/part_001     *)
(* (asthma).  A page loads one copy; copdScript / asthmaScript record      *)
(* which one.                                                              *)
(*                                                                         *)
(* Field values are strings, written here as sequences of one-character    *)
(* strings so that parseFloat / parseInt can be modelled by what they do.  *)
(* Numbers are fixed-point with FixedDigits fraction digits.               *)
(***************************************************************************)
EXTENDS Integers, Sequences, FiniteSets, TLC

\* ------------------------------------------------------------------------
\* JavaScript values and conversions
\* ------------------------------------------------------------------------

\* ratio.toFixed(2): numbers are kept in hundredths
FixedDigits == 2

RECURSIVE Pow10(_)
Pow10(n) == IF n = 0 THEN 1 ELSE 10 * Pow10(n - 1)

Scale == Pow10(FixedDigits)

\* a JS number: NaN, or a fixed-point value v / Scale
NaN == [nan |-> TRUE, v |-> 0]
Num(x) == [nan |-> FALSE, v |-> x]
Int2Num(n) == Num(n * Scale)

\* isNaN(x)
isNaN(x) == x.nan

\* a < b and a >= b; every comparison with NaN is false
Lt(a, b) == ~a.nan /\ ~b.nan /\ a.v < b.v
Ge(a, b) == ~a.nan /\ ~b.nan /\ a.v >= b.v

\* Math.max(a, b): NaN if either argument converts to NaN
MathMax(a, b) == IF a.nan \/ b.nan THEN NaN
                 ELSE IF a.v >= b.v THEN a ELSE b

Digit == {"0", "1", "2", "3", "4", "5", "6", "7", "8", "9"}

DigitVal(c) == CASE c = "0" -> 0 [] c = "1" -> 1 [] c = "2" -> 2 [] c = "3" -> 3
                 [] c = "4" -> 4 [] c = "5" -> 5 [] c = "6" -> 6 [] c = "7" -> 7
                 [] c = "8" -> 8 [] c = "9" -> 9

\* first index >= i of s that does not hold a digit
RECURSIVE DigitsEnd(_, _)
DigitsEnd(s, i) == IF i <= Len(s) /\ s[i] \in Digit THEN DigitsEnd(s, i + 1) ELSE i

\* the value of the digits s[i..j-1]
RECURSIVE DigitsVal(_, _, _)
DigitsVal(s, i, j) == IF j <= i THEN 0
                      ELSE 10 * DigitsVal(s, i, j - 1) + DigitVal(s[j - 1])

\* the first FixedDigits fraction digits s[i..j-1], padded with zeros
RECURSIVE FracVal(_, _, _, _)
FracVal(s, i, j, k) == IF k = 0 THEN 0
                       ELSE (IF i < j THEN DigitVal(s[i]) ELSE 0) * Pow10(k - 1)
                            + FracVal(s, i + 1, j, k - 1)

SignLen(s) == IF Len(s) >= 1 /\ s[1] \in {"-", "+"} THEN 1 ELSE 0
SignOf(s) == IF Len(s) >= 1 /\ s[1] = "-" THEN -1 ELSE 1

\* parseFloat(s): the longest prefix [sign] digits [. digits] or [sign] .
\* digits; NaN when that prefix holds no digit.  Anything after the prefix
\* is ignored.  (Exponents, "Infinity" and leading blanks are outside the
\* alphabet of the field values below.)
parseFloat(s) ==
  LET b == SignLen(s) + 1
      e == DigitsEnd(s, b)
      hasDot == e <= Len(s) /\ s[e] = "."
      f == IF hasDot THEN DigitsEnd(s, e + 1) ELSE e
      nInt == e - b
      nFrac == IF hasDot THEN f - (e + 1) ELSE 0
  IN IF nInt = 0 /\ nFrac = 0 THEN NaN
     ELSE Num(SignOf(s) * (DigitsVal(s, b, e) * Scale
                           + (IF hasDot THEN FracVal(s, e + 1, f, FixedDigits) ELSE 0)))

\* parseInt(s, 10): the longest prefix [sign] digits; NaN when it holds no
\* digit.  Anything after the prefix (a fraction included) is ignored.
parseInt(s) ==
  LET b == SignLen(s) + 1
      e == DigitsEnd(s, b)
  IN IF e = b THEN NaN ELSE Int2Num(SignOf(s) * DigitsVal(s, b, e))

\* x.toFixed(2) of a number: sign, integer part and the two fraction digits
toFixed(x) ==
  LET a == IF x.v < 0 THEN -x.v ELSE x.v
  IN [neg |-> x.v < 0, int |-> a \div Scale, frac |-> a % Scale]

\* `${x}` of a number: the number itself, "NaN" for NaN
ToText(x) == IF x.nan THEN [isNaN |-> TRUE, neg |-> FALSE, int |-> 0, frac |-> 0]
             ELSE [isNaN |-> FALSE, neg |-> x.v < 0,
                   int |-> (IF x.v < 0 THEN -x.v ELSE x.v) \div Scale,
                   frac |-> (IF x.v < 0 THEN -x.v ELSE x.v) % Scale]

\* ------------------------------------------------------------------------
\* State
\* ------------------------------------------------------------------------

VARIABLES
  copdScript,        \* the copy of the COPD script the page loaded
  copdJspdf,         \* window.jspdf of the COPD page is defined
  copdPdf,           \* the document the COPD page saved last, << >> if none
  ratio,             \* #ratio.value
  fev1percent,       \* #fev1percent.value
  exacerbations,     \* #exacerbations.value
  hospitalizations,  \* #hospitalizations.value
  mmrcRadio,         \* input[name="mmrc"]: is one checked, and its value
  copdInhalers,      \* values of the checked input[name="inhalers"], DOM order
  copdFrequency,     \* #copdFrequency.value
  copdFormDisplay,   \* #copdForm.style.display
  copdResultHTML,    \* #copdResult.innerHTML, a sequence of rendered reports
  copdResultDisplay, \* #copdResult.style.display
  copdAlert,         \* the last alert() of the COPD page, "" if none
  copdHistory,       \* history: (form read, report rendered) of the latest calls
  asthmaScript,      \* the copy of the asthma script the page loaded
  asthmaJspdf,       \* window.jspdf of the asthma page is defined
  asthmaPdf,         \* the document the asthma page saved last, << >> if none
  currentStep,       \* let currentStep
  activeStep,        \* index (from 1) of the .step element with class active, 0 if none
  prevBtnDisabled,   \* #prevBtn.disabled
  nextBtnText,       \* #nextBtn.textContent
  fev1,              \* #fev1.value
  daytime,           \* #daytime.value
  nighttime,         \* #nighttime.value
  activity,          \* #activity.value
  asthmaInhalers,    \* the checked inhaler checkboxes, DOM order
  asthmaFrequency,   \* frequency field value(s), see AsthmaInhalerLine
  asthmaFormDisplay, \* #asthmaForm.style.display
  asthmaResultHTML,  \* #asthmaResult.innerHTML, a sequence of rendered reports
  asthmaResultDisplay, \* #asthmaResult.style.display
  asthmaAlert,       \* the last alert() of the asthma page, "" if none
  asthmaHistory      \* history: (form read, report rendered) of the latest calls

copdForm == <<ratio, fev1percent, exacerbations, hospitalizations, mmrcRadio,
              copdInhalers, copdFrequency>>
copdView == <<copdFormDisplay, copdResultHTML, copdResultDisplay>>
copdPage == <<copdScript, copdJspdf, copdPdf>>
copdVars == <<copdPage, copdForm, copdView, copdAlert, copdHistory>>

asthmaForm == <<fev1, daytime, nighttime, activity, asthmaInhalers, asthmaFrequency>>
asthmaView == <<asthmaFormDisplay, asthmaResultHTML, asthmaResultDisplay>>
wizard == <<currentStep, activeStep, prevBtnDisabled, nextBtnText>>
asthmaPage == <<asthmaScript, asthmaJspdf, asthmaPdf>>
asthmaVars == <<asthmaPage, wizard, asthmaForm, asthmaView, asthmaAlert,
                asthmaHistory>>

vars == <<copdVars, asthmaVars>>

\* the number of latest calls per classifier whose input and output the
\* history keeps
MaxHistory == 2

\* history of the calls that rendered a report, oldest first: what was read
\* and what was shown
Record(history, form, html) ==
  LET h == Append(history, [input |-> form, output |-> html])
  IN IF Len(h) > MaxHistory THEN Tail(h) ELSE h

\* ------------------------------------------------------------------------
\* COPD: computeCOPD
\* ------------------------------------------------------------------------

\* mmrc: null unless a radio is checked, else parseInt(radio.value, 10)
mmrcIsNull(radio) == ~radio.checked
mmrcValue(radio) == parseInt(radio.value)

\* the guard of the validation branch
CopdInvalid(r, f, e, h, radio) ==
  isNaN(r) \/ isNaN(f) \/ isNaN(e) \/ isNaN(h) \/ mmrcIsNull(radio)

\* variant: open lower bounds (> for >=)
Gt(a, b) == ~a.nan /\ ~b.nan /\ a.v > b.v
GoldGradeOpenBounds(f) ==
  IF Gt(f, Int2Num(80)) THEN "GOLD 1 (Mild)"
  ELSE IF Gt(f, Int2Num(50)) THEN "GOLD 2 (Moderate)"
  ELSE IF Gt(f, Int2Num(30)) THEN "GOLD 3 (Severe)"
  ELSE "GOLD 4 (Very Severe)"

GoldGrade(f) ==
  IF Ge(f, Int2Num(80)) THEN "GOLD 1 (Mild)"
  ELSE IF Ge(f, Int2Num(50)) THEN "GOLD 2 (Moderate)"
  ELSE IF Ge(f, Int2Num(30)) THEN "GOLD 3 (Severe)"
  ELSE "GOLD 4 (Very Severe)"

GoldDescription(f) ==
  IF Ge(f, Int2Num(80)) THEN "Airflow obstruction is mild with FEV1 >=80% predicted."
  ELSE IF Ge(f, Int2Num(50))
    THEN "Airflow obstruction is moderate with FEV1 between 50% and 79% predicted."
  ELSE IF Ge(f, Int2Num(30))
    THEN "Airflow obstruction is severe with FEV1 between 30% and 49% predicted."
  ELSE "Airflow obstruction is very severe with FEV1 <30% predicted."

\* variant: symptom burden tested before exacerbation risk
AbeGroupSymptomFirst(e, h, m) ==
  IF Ge(m, Int2Num(2)) THEN "Group B"
  ELSE IF Ge(h, Int2Num(1)) \/ Ge(e, Int2Num(2)) THEN "Group E"
  ELSE "Group A"

AbeGroup(e, h, m) ==
  IF Ge(h, Int2Num(1)) \/ Ge(e, Int2Num(2)) THEN "Group E"
  ELSE IF Ge(m, Int2Num(2)) THEN "Group B"
  ELSE "Group A"

AbeDescription(e, h, m) ==
  IF Ge(h, Int2Num(1)) \/ Ge(e, Int2Num(2))
    THEN "High risk for exacerbations: two or more moderate exacerbations or at least one hospitalization in the past year."
  ELSE IF Ge(m, Int2Num(2))
    THEN "Higher symptom burden: mMRC score >=2 with 0-1 moderate exacerbations and no hospitalization in the past year."
  ELSE "Lower symptom burden: mMRC score 0-1 with 0-1 moderate exacerbations and no hospitalization in the past year."

\* ratio < 0.7
RatioBelow(r) == Lt(r, Num((7 * Scale) \div 10))

DiagnosticNote(r) ==
  IF RatioBelow(r)
    THEN ", which is below the 0.70 threshold used to confirm airflow obstruction in COPD."
  ELSE ". Values >=0.70 are generally considered normal; consult a healthcare professional for interpretation."

RescueItem ==
  "Rescue short-acting bronchodilators should be prescribed to all patients for immediate symptom relief."

\* the <li> items of copdRecommendation; empty when no branch matches
CopdRecommendation(group) ==
  IF group = "Group A" THEN
    << "Offer bronchodilator therapy to relieve breathlessness; this may be a short-acting or long-acting bronchodilator. A long-acting bronchodilator (LABA or LAMA) is preferred if available and affordable except in patients with very occasional breathlessness.",
       "Continue treatment if benefit is documented; reassess regularly.",
       RescueItem >>
  ELSE IF group = "Group B" THEN
    << "Initiate therapy with a combination of a long-acting beta agonist and a long-acting muscarinic antagonist (LABA+LAMA); clinical trials demonstrate that LABA+LAMA is superior to LAMA alone for symptom control.",
       "If LABA+LAMA is not appropriate, there is no evidence to recommend one class of long-acting bronchodilator over another; select either LABA or LAMA based on the patient's perception of symptom relief.",
       "Investigate and manage comorbidities that may contribute to symptoms.",
       RescueItem >>
  ELSE IF group = "Group E" THEN
    << "A dual bronchodilator combination (LABA+LAMA) is the preferred initial therapy.",
       "Do not initiate LABA+ICS without LAMA; if an inhaled corticosteroid is indicated (e.g., blood eosinophil count >=300 cells/uL or concomitant asthma), use triple therapy with LABA+LAMA+ICS, which is superior to LABA+ICS.",
       "Consider triple therapy at diagnosis when eosinophil count is high (>=300 cells/uL).",
       "Patients with COPD and co-existing asthma should be treated like asthma patients, making inhaled corticosteroids mandatory.",
       RescueItem >>
  ELSE << >>

\* variant: grade and group assigned only when the ratio confirms obstruction
CopdReportBaseGated(r, f, e, h, m, inhalers, frequency) ==
  [ heading          |-> "Results",
    ratioText        |-> toFixed(r),
    diagnosticNote   |-> DiagnosticNote(r),
    goldGrade        |-> IF RatioBelow(r) THEN GoldGrade(f) ELSE "",
    goldDescription  |-> IF RatioBelow(r) THEN GoldDescription(f) ELSE "",
    abeGroup         |-> IF RatioBelow(r) THEN AbeGroup(e, h, m) ELSE "",
    abeDescription   |-> IF RatioBelow(r) THEN AbeDescription(e, h, m) ELSE "",
    fev1percent      |-> ToText(f),
    mmrc             |-> ToText(m),
    exacerbations    |-> ToText(e),
    hospitalizations |-> ToText(h),
    inhalers         |-> inhalers,
    showFrequency    |-> frequency # << >>,
    frequency        |-> frequency ]

\* the paragraphs both copies of computeCOPD render
CopdReportBase(r, f, e, h, m, inhalers, frequency) ==
  [ heading          |-> "Results",
    ratioText        |-> toFixed(r),
    diagnosticNote   |-> DiagnosticNote(r),
    goldGrade        |-> GoldGrade(f),
    goldDescription  |-> GoldDescription(f),
    abeGroup         |-> AbeGroup(e, h, m),
    abeDescription   |-> AbeDescription(e, h, m),
    fev1percent      |-> ToText(f),
    mmrc             |-> ToText(m),
    exacerbations    |-> ToText(e),
    hospitalizations |-> ToText(h),
    inhalers         |-> inhalers,
    showFrequency    |-> frequency # << >>,
    frequency        |-> frequency ]

\* resultHtml of src/copd.js: no recommendation, no download button
CopdReport(r, f, e, h, m, inhalers, frequency) ==
  [ base           |-> CopdReportBase(r, f, e, h, m, inhalers, frequency),
    recommendation |-> << >>,
    downloadButton |-> FALSE ]

\* resultHtml of the second copy: recommendation appended when non-empty,
\* then the download button
CopdReport_part000(r, f, e, h, m, inhalers, frequency) ==
  [ base           |-> CopdReportBase(r, f, e, h, m, inhalers, frequency),
    recommendation |-> CopdRecommendation(AbeGroup(e, h, m)),
    downloadButton |-> TRUE ]

\* variant: resultDiv.innerHTML += resultHtml
AppendInnerHTML(old, html) == old \o << html >>

\* resultDiv.innerHTML = resultHtml
SetInnerHTML(old, html) == << html >>

AlertFillAll == "Please fill in all required fields."

\* the form values as computeCOPD reads them
CopdParsed ==
  [ r |-> parseFloat(ratio),
    f |-> parseFloat(fev1percent),
    e |-> parseInt(exacerbations),
    h |-> parseInt(hospitalizations),
    m |-> mmrcValue(mmrcRadio) ]

\* the validation branch: alert and return
CopdReject ==
  /\ copdAlert' = AlertFillAll
  /\ UNCHANGED <<copdView, copdHistory>>

\* display the result and hide the form
CopdDisplay(html) ==
  /\ copdFormDisplay' = "none"
  /\ copdResultHTML' = SetInnerHTML(copdResultHTML, html)
  /\ copdResultDisplay' = "block"
  /\ copdHistory' = Record(copdHistory, copdForm, copdResultHTML')
  /\ UNCHANGED copdAlert

\* computeCOPD of src/copd.js
computeCOPD ==
  /\ copdScript = "copd.js"
  /\ LET p == CopdParsed
     IN IF CopdInvalid(p.r, p.f, p.e, p.h, mmrcRadio)
        THEN CopdReject
        ELSE CopdDisplay(CopdReport(p.r, p.f, p.e, p.h, p.m, copdInhalers, copdFrequency))
  /\ UNCHANGED <<copdPage, copdForm, asthmaVars>>

\* computeCOPD of the second copy (src/unnamed/part_000)
computeCOPD_part000 ==
  /\ copdScript = "part_000"
  /\ LET p == CopdParsed
     IN IF CopdInvalid(p.r, p.f, p.e, p.h, mmrcRadio)
        THEN CopdReject
        ELSE CopdDisplay(CopdReport_part000(p.r, p.f, p.e, p.h, p.m, copdInhalers,
                                            copdFrequency))
  /\ UNCHANGED <<copdPage, copdForm, asthmaVars>>

\* ------------------------------------------------------------------------
\* Asthma: computeAsthmaStage
\* ------------------------------------------------------------------------

totalSteps == 5

inhalerList == << "SABA", "LABA", "ICS", "ICS_LABA", "LAMA", "other" >>

\* Property names every object literal inherits from Object.prototype: a
\* lookup of one of them on a map finds a function (or, for __proto__, the
\* prototype object), not undefined.
ObjectPrototypeKeys ==
  { "constructor", "toString", "toLocaleString", "valueOf", "hasOwnProperty",
    "isPrototypeOf", "propertyIsEnumerable", "__proto__", "__defineGetter__",
    "__defineSetter__", "__lookupGetter__", "__lookupSetter__" }

\* the result of map[key]: a number, an inherited object, or undefined
Undefined == [t |-> "undefined", n |-> NaN]
Object == [t |-> "object", n |-> NaN]
Number(k) == [t |-> "number", n |-> Int2Num(k)]

daytimeMap(key) ==
  CASE key = "<=2" -> Number(1) [] key = "3-6" -> Number(2)
    [] key = "daily" -> Number(3) [] key = "throughout" -> Number(4)
    [] key \in ObjectPrototypeKeys -> Object
    [] OTHER -> Undefined

nighttimeMap(key) ==
  CASE key = "<=2" -> Number(1) [] key = "3-4" -> Number(2)
    [] key = "5+" -> Number(3) [] key = "often" -> Number(4)
    [] key \in ObjectPrototypeKeys -> Object
    [] OTHER -> Undefined

activityMap(key) ==
  CASE key = "none" -> Number(1) [] key = "minor" -> Number(2)
    [] key = "some" -> Number(3) [] key = "extreme" -> Number(4)
    [] key \in ObjectPrototypeKeys -> Object
    [] OTHER -> Undefined

\* x || 1: undefined is falsy; the table's numbers (1..4) and objects are truthy
OrOne(x) == IF x.t = "undefined" THEN Number(1) ELSE x

\* ToNumber of an operand of Math.max: a function or plain object gives NaN
ToNumber(x) == IF x.t = "number" THEN x.n ELSE NaN

\* variant: closed upper bounds (<= for <)
Le(a, b) == ~a.nan /\ ~b.nan /\ a.v <= b.v
Fev1SeverityClosed(f) ==
  LET severity == Int2Num(1)
  IN IF ~isNaN(f)
     THEN IF Le(f, Int2Num(60)) THEN MathMax(severity, Int2Num(4))
          ELSE IF Le(f, Int2Num(80)) THEN MathMax(severity, Int2Num(3))
          ELSE severity
     ELSE severity

\* severity after the FEV1 step
Fev1Severity(f) ==
  LET severity == Int2Num(1)
  IN IF ~isNaN(f)
     THEN IF Lt(f, Int2Num(60)) THEN MathMax(severity, Int2Num(4))
          ELSE IF Lt(f, Int2Num(80)) THEN MathMax(severity, Int2Num(3))
          ELSE severity
     ELSE severity

\* let severity, after the four steps
Severity(f, d, n, a) ==
  LET s0 == Fev1Severity(f)
      s1 == MathMax(s0, ToNumber(OrOne(daytimeMap(d))))
      s2 == MathMax(s1, ToNumber(OrOne(nighttimeMap(n))))
      s3 == MathMax(s2, ToNumber(OrOne(activityMap(a))))
  IN s3

\* the branch of switch (severity) taken: strict equality with 1..4, else default
StageCase(severity) ==
  IF severity = Int2Num(1) THEN "case 1"
  ELSE IF severity = Int2Num(2) THEN "case 2"
  ELSE IF severity = Int2Num(3) THEN "case 3"
  ELSE IF severity = Int2Num(4) THEN "case 4"
  ELSE "default"

StageName(severity) ==
  CASE StageCase(severity) = "case 1" -> "Intermittent (Mild) Asthma"
    [] StageCase(severity) = "case 2" -> "Mild Persistent Asthma"
    [] StageCase(severity) = "case 3" -> "Moderate Persistent Asthma"
    [] StageCase(severity) = "case 4" -> "Severe Persistent Asthma"
    [] OTHER -> "Intermittent (Mild) Asthma"

StageDescription(severity) ==
  CASE StageCase(severity) = "case 1" ->
         "Symptoms occur infrequently (<=2 days/week), with minimal nighttime waking (<=2 times/month) and no limitation of activities. Lung function (FEV1) is typically >=80% predicted."
    [] StageCase(severity) = "case 2" ->
         "Symptoms are present on 3-6 days per week or 3-4 nights per month. There may be minor limitation of activity and FEV1 is >=80% predicted."
    [] StageCase(severity) = "case 3" ->
         "Symptoms occur daily and nighttime awakenings >=5 times per month. There is some limitation of activities and lung function is between 60-80% predicted."
    [] StageCase(severity) = "case 4" ->
         "Symptoms are present throughout the day, nighttime symptoms occur often, activities are extremely limited, and lung function is <=60% predicted."
    [] OTHER -> "Symptoms occur infrequently with minimal impact on daily activities."

\* inhalerData of src/asthma.js: one {name, freq} per checked inhaler
RECURSIVE InhalerData(_, _)
InhalerData(checked, freqs) ==
  IF checked = << >> THEN << >>
  ELSE << [name |-> Head(checked), freq |-> freqs[Head(checked)]] >>
       \o InhalerData(Tail(checked), freqs)

\* the <li> text of one inhaler: its frequency or 'frequency not specified'
RECURSIVE InhalerItems(_)
InhalerItems(data) ==
  IF data = << >> THEN << >>
  ELSE << [name |-> Head(data).name, specified |-> Head(data).freq # << >>,
           freq |-> Head(data).freq] >> \o InhalerItems(Tail(data))

\* the paragraphs both copies of computeAsthmaStage render first
AsthmaReportBase(f, d, n, a) ==
  [ heading          |-> "Results",
    severity         |-> Severity(f, d, n, a),
    stageCase        |-> StageCase(Severity(f, d, n, a)),
    stageName        |-> StageName(Severity(f, d, n, a)),
    stageDescription |-> StageDescription(Severity(f, d, n, a)),
    showFev1         |-> ~isNaN(f),
    fev1             |-> ToText(f) ]

\* resultHtml of src/asthma.js: per-inhaler list, then the download button
AsthmaReport(f, d, n, a, checked, freqs) ==
  [ base           |-> AsthmaReportBase(f, d, n, a),
    inhalers       |-> InhalerItems(InhalerData(checked, freqs)),
    showFrequency  |-> FALSE,
    frequency      |-> << >>,
    downloadButton |-> TRUE ]

\* resultHtml of the second copy: joined inhaler names, one frequency line
AsthmaReport_part001(f, d, n, a, checked, freqs) ==
  [ base           |-> AsthmaReportBase(f, d, n, a),
    inhalers       |-> checked,
    showFrequency  |-> freqs["frequency"] # << >>,
    frequency      |-> freqs["frequency"],
    downloadButton |-> FALSE ]

\* hide the form and show the result
AsthmaDisplay(html) ==
  /\ asthmaFormDisplay' = "none"
  /\ asthmaResultHTML' = SetInnerHTML(asthmaResultHTML, html)
  /\ asthmaResultDisplay' = "block"
  /\ asthmaHistory' = Record(asthmaHistory, asthmaForm, asthmaResultHTML')

\* the body of computeAsthmaStage of the loaded copy
AsthmaStageBody ==
  IF asthmaScript = "asthma.js"
  THEN AsthmaDisplay(AsthmaReport(parseFloat(fev1), daytime, nighttime, activity,
                                  asthmaInhalers, asthmaFrequency))
  ELSE AsthmaDisplay(AsthmaReport_part001(parseFloat(fev1), daytime, nighttime,
                                          activity, asthmaInhalers, asthmaFrequency))

\* a call of computeAsthmaStage of src/asthma.js
computeAsthmaStage ==
  /\ asthmaScript = "asthma.js"
  /\ AsthmaStageBody
  /\ UNCHANGED <<asthmaPage, wizard, asthmaForm, asthmaAlert, copdVars>>

\* a call of computeAsthmaStage of the second copy (src/unnamed/part_001)
computeAsthmaStage_part001 ==
  /\ asthmaScript = "part_001"
  /\ AsthmaStageBody
  /\ UNCHANGED <<asthmaPage, wizard, asthmaForm, asthmaAlert, copdVars>>

\* ------------------------------------------------------------------------
\* Asthma: the wizard
\* ------------------------------------------------------------------------

\* the page's .step elements, one per step
StepElements == 1..totalSteps

\* the values of the required inputs of a step element: the three category
\* selects are required, the FEV1 and inhaler steps have no required input
RequiredValues(step) ==
  CASE step = 2 -> << daytime >>
    [] step = 3 -> << nighttime >>
    [] step = 4 -> << activity >>
    [] OTHER -> << >>

\* showStep(), given the value of currentStep it runs with
showStep(step) ==
  /\ activeStep' = IF step \in StepElements THEN step ELSE 0
  /\ prevBtnDisabled' = (step = 1)
  /\ nextBtnText' = IF step = totalSteps THEN "Submit" ELSE "Next"

\* variant: the loop over the inputs of the active step is skipped
validateCurrentStepNoCheck == TRUE

\* validateCurrentStep(): true when no step is active or no required input
\* of the active step is empty
validateCurrentStep ==
  \/ activeStep = 0
  \/ \A i \in DOMAIN RequiredValues(activeStep) : RequiredValues(activeStep)[i] # ""

AlertComplete == "Please complete the required field before continuing."

\* variant: nextStep without its first line, the validation
nextStepUnvalidated ==
  /\ IF currentStep = totalSteps
     THEN /\ AsthmaStageBody
          /\ UNCHANGED <<wizard, asthmaAlert>>
     ELSE /\ currentStep' = currentStep + 1
          /\ showStep(currentStep + 1)
          /\ UNCHANGED <<asthmaView, asthmaAlert, asthmaHistory>>
  /\ UNCHANGED <<asthmaPage, asthmaForm, copdVars>>

nextStep ==
  /\ IF ~validateCurrentStep
     THEN /\ asthmaAlert' = AlertComplete
          /\ UNCHANGED <<wizard, asthmaView, asthmaHistory>>
     ELSE IF currentStep = totalSteps
     THEN /\ AsthmaStageBody
          /\ UNCHANGED <<wizard, asthmaAlert>>
     ELSE /\ currentStep' = currentStep + 1
          /\ showStep(currentStep + 1)
          /\ UNCHANGED <<asthmaView, asthmaAlert, asthmaHistory>>
  /\ UNCHANGED <<asthmaPage, asthmaForm, copdVars>>

\* variant: prevStep without the test currentStep > 1
prevStepUnguarded ==
  /\ currentStep' = currentStep - 1
  /\ showStep(currentStep - 1)
  /\ UNCHANGED <<asthmaPage, asthmaForm, asthmaView, asthmaAlert, asthmaHistory,
                 copdVars>>

prevStep ==
  /\ IF currentStep > 1
     THEN /\ currentStep' = currentStep - 1
          /\ showStep(currentStep - 1)
     ELSE UNCHANGED wizard
  /\ UNCHANGED <<asthmaPage, asthmaForm, asthmaView, asthmaAlert, asthmaHistory,
                 copdVars>>

\* ------------------------------------------------------------------------
\* PDF export
\* ------------------------------------------------------------------------

\* the label of the download button both scripts render
DownloadLabel == "Download PDF Report"

\* resultDiv.innerText.trim(): the text of what the result area holds, one
\* entry per rendered report: its paragraphs without the markup, then the
\* label of its button if it has one.  The text carries no surrounding
\* white space for trim() to remove.
InnerText(html) ==
  [ i \in DOMAIN html |->
      [ paragraphs |-> [ k \in (DOMAIN html[i]) \ { "downloadButton" } |-> html[i][k] ],
        button     |-> IF html[i].downloadButton THEN DownloadLabel ELSE "" ] ]

\* the jsPDF document: text wrapped by splitTextToSize(text, 180), written
\* at (10, 10) in size 12, saved under filename
PdfDocument(text, filename) ==
  [ filename |-> filename,
    fontSize |-> 12,
    maxWidth |-> 180,
    at       |-> << 10, 10 >>,
    text     |-> text ]

AlertNoPdf == "PDF library not loaded. Please try again."

\* the result area holds a download button: computeCOPD of the second copy
\* attached downloadCopdReportPDF to its click when it rendered it
CopdPdfButton ==
  \E i \in DOMAIN copdResultHTML : copdResultHTML[i].downloadButton

\* the same for #downloadPdfBtn of src/asthma.js
AsthmaPdfButton ==
  \E i \in DOMAIN asthmaResultHTML : asthmaResultHTML[i].downloadButton

\* variant: the handler runs whether or not a button was rendered
downloadCopdReportPDFUnattached ==
  /\ IF ~copdJspdf
     THEN /\ copdAlert' = AlertNoPdf
          /\ UNCHANGED copdPdf
     ELSE /\ copdPdf' = << PdfDocument(InnerText(copdResultHTML), "copd_report.pdf") >>
          /\ UNCHANGED copdAlert
  /\ UNCHANGED <<copdScript, copdJspdf, copdForm, copdView, copdHistory, asthmaVars>>

\* a click on #downloadCopdPdfBtn: downloadCopdReportPDF (#copdResult
\* exists: computeCOPD rendered the button into it)
downloadCopdReportPDF ==
  /\ CopdPdfButton
  /\ IF ~copdJspdf
     THEN /\ copdAlert' = AlertNoPdf
          /\ UNCHANGED copdPdf
     ELSE /\ copdPdf' = << PdfDocument(InnerText(copdResultHTML), "copd_report.pdf") >>
          /\ UNCHANGED copdAlert
  /\ UNCHANGED <<copdScript, copdJspdf, copdForm, copdView, copdHistory, asthmaVars>>

\* a click on #downloadPdfBtn: downloadAsthmaReportPDF
downloadAsthmaReportPDF ==
  /\ AsthmaPdfButton
  /\ IF ~asthmaJspdf
     THEN /\ asthmaAlert' = AlertNoPdf
          /\ UNCHANGED asthmaPdf
     ELSE /\ asthmaPdf' = << PdfDocument(InnerText(asthmaResultHTML), "asthma_report.pdf") >>
          /\ UNCHANGED asthmaAlert
  /\ UNCHANGED <<asthmaScript, asthmaJspdf, wizard, asthmaForm, asthmaView,
                 asthmaHistory, copdVars>>

\* ------------------------------------------------------------------------
\* The user filling in the forms
\* ------------------------------------------------------------------------

SetRatio(S) ==
  /\ \E v \in S : ratio' = v
  /\ UNCHANGED <<copdPage, fev1percent, exacerbations, hospitalizations, mmrcRadio,
                 copdInhalers, copdFrequency, copdView, copdAlert, copdHistory,
                 asthmaVars>>

SetFev1Percent(S) ==
  /\ \E v \in S : fev1percent' = v
  /\ UNCHANGED <<copdPage, ratio, exacerbations, hospitalizations, mmrcRadio,
                 copdInhalers, copdFrequency, copdView, copdAlert, copdHistory,
                 asthmaVars>>

SetExacerbations(S) ==
  /\ \E v \in S : exacerbations' = v
  /\ UNCHANGED <<copdPage, ratio, fev1percent, hospitalizations, mmrcRadio,
                 copdInhalers, copdFrequency, copdView, copdAlert, copdHistory,
                 asthmaVars>>

SetHospitalizations(S) ==
  /\ \E v \in S : hospitalizations' = v
  /\ UNCHANGED <<copdPage, ratio, fev1percent, exacerbations, mmrcRadio,
                 copdInhalers, copdFrequency, copdView, copdAlert, copdHistory,
                 asthmaVars>>

CheckMmrc(S) ==
  /\ \E v \in S : mmrcRadio' = v
  /\ UNCHANGED <<copdPage, ratio, fev1percent, exacerbations, hospitalizations,
                 copdInhalers, copdFrequency, copdView, copdAlert, copdHistory,
                 asthmaVars>>

SetCopdInhalers(S) ==
  /\ \E v \in S : copdInhalers' = v
  /\ UNCHANGED <<copdPage, ratio, fev1percent, exacerbations, hospitalizations,
                 mmrcRadio, copdFrequency, copdView, copdAlert, copdHistory,
                 asthmaVars>>

SetCopdFrequency(S) ==
  /\ \E v \in S : copdFrequency' = v
  /\ UNCHANGED <<copdPage, ratio, fev1percent, exacerbations, hospitalizations,
                 mmrcRadio, copdInhalers, copdView, copdAlert, copdHistory,
                 asthmaVars>>

SetFev1(S) ==
  /\ \E v \in S : fev1' = v
  /\ UNCHANGED <<asthmaPage, wizard, daytime, nighttime, activity, asthmaInhalers,
                 asthmaFrequency, asthmaView, asthmaAlert, asthmaHistory, copdVars>>

SetDaytime(S) ==
  /\ \E v \in S : daytime' = v
  /\ UNCHANGED <<asthmaPage, wizard, fev1, nighttime, activity, asthmaInhalers,
                 asthmaFrequency, asthmaView, asthmaAlert, asthmaHistory, copdVars>>

SetNighttime(S) ==
  /\ \E v \in S : nighttime' = v
  /\ UNCHANGED <<asthmaPage, wizard, fev1, daytime, activity, asthmaInhalers,
                 asthmaFrequency, asthmaView, asthmaAlert, asthmaHistory, copdVars>>

SetActivity(S) ==
  /\ \E v \in S : activity' = v
  /\ UNCHANGED <<asthmaPage, wizard, fev1, daytime, nighttime, asthmaInhalers,
                 asthmaFrequency, asthmaView, asthmaAlert, asthmaHistory, copdVars>>

\* the wizard shows one step element at a time: the field of a step is
\* edited while that step is the active one (FEV1 on the first step, then
\* the three categories; the inhalers of the last step stay as loaded)
EditFev1(S) == activeStep = 1 /\ SetFev1(S)
EditDaytime(S) == activeStep = 2 /\ SetDaytime(S)
EditNighttime(S) == activeStep = 3 /\ SetNighttime(S)
EditActivity(S) == activeStep = 4 /\ SetActivity(S)

\* ------------------------------------------------------------------------
\* Field values and initial states
\* ------------------------------------------------------------------------

\* values covering both sides of 0.70, a numeric prefix followed by other
\* characters, text and the empty field
RatioValues == { << >>, << "x" >>, << "0", ".", "6", "9" >>, << "0", ".", "7" >>, << "0", ".", "6", "x" >> }

\* values on and just under the thresholds 80, 50 and 30
Fev1PercentValues ==
  { << >>, << "x" >>, << "8", "0" >>, << "7", "9", ".", "9", "9" >>, << "5", "0" >>, << "4", "9", ".", "9", "9" >>, << "3", "0" >>, << "2", "9", ".", "9", "9" >>, << "8", "0", "x" >> }

ExacerbationValues == { << >>, << "0" >>, << "1" >>, << "2" >>, << "1", ".", "9" >> }

HospitalizationValues == { << >>, << "0" >>, << "1" >>, << "x" >> }

\* the mMRC radios carry the scores 0..4
NoRadio == [checked |-> FALSE, value |-> << >>]
Radio(v) == [checked |-> TRUE, value |-> << v >>]
MmrcValues == { NoRadio, Radio("0"), Radio("1"), Radio("2"), Radio("3"), Radio("4") }

CopdInhalerValues == { << >>, << "LABA", "LAMA" >> }

FrequencyValues == { << >>, << "3" >> }

\* asthma FEV1: values on and just under the thresholds 60 and 80
Fev1Values == { << >>, << "x" >>, << "5", "9", ".", "9", "9" >>, << "6", "0" >>, << "7", "9", ".", "9", "9" >>, << "8", "0" >> }

\* the keys of each table, the empty and an unknown value, and a property
\* name inherited from Object.prototype
DaytimeKeys == { "<=2", "3-6", "daily", "throughout" }
NighttimeKeys == { "<=2", "3-4", "5+", "often" }
ActivityKeys == { "none", "minor", "some", "extreme" }

DaytimeValues == DaytimeKeys \cup { "", "weekly", "constructor" }
NighttimeValues == NighttimeKeys \cup { "", "never", "toString" }
ActivityValues == ActivityKeys \cup { "", "severe", "__proto__" }

InhalerIds == { inhalerList[i] : i \in DOMAIN inhalerList }

\* checked inhalers and frequency fields of the page of src/asthma.js ...
AsthmaInhalerForms ==
  { [checked |-> << >>, freqs |-> [id \in InhalerIds |-> << >>]],
    [checked |-> << "SABA", "ICS" >>, freqs |-> [id \in InhalerIds |-> << >>]],
    [checked |-> << "SABA", "ICS" >>,
     freqs |-> [id \in InhalerIds |-> IF id = "SABA" THEN << "2" >> ELSE << >>]] }

\* ... and of the page of the second copy, with its single frequency field
AsthmaInhalerForms_part001 ==
  { [checked |-> c, freqs |-> [id \in {"frequency"} |-> f]] :
      c \in { << >>, << "SABA", "ICS" >> }, f \in FrequencyValues }

InhalerForms(script) ==
  IF script = "asthma.js" THEN AsthmaInhalerForms ELSE AsthmaInhalerForms_part001

\* the COPD page after loading: nothing rendered
CopdLoaded ==
  /\ copdScript \in { "copd.js", "part_000" }
  /\ copdPdf = << >>
  /\ copdFormDisplay = ""
  /\ copdResultHTML = << >>
  /\ copdResultDisplay = ""
  /\ copdAlert = ""
  /\ copdHistory = << >>

\* the asthma page after DOMContentLoaded: showStep() has run with step 1
AsthmaLoaded ==
  /\ asthmaScript \in { "asthma.js", "part_001" }
  /\ asthmaPdf = << >>
  /\ currentStep = 1
  /\ activeStep = 1
  /\ prevBtnDisabled = TRUE
  /\ nextBtnText = "Next"
  /\ asthmaFormDisplay = ""
  /\ asthmaResultHTML = << >>
  /\ asthmaResultDisplay = ""
  /\ asthmaAlert = ""
  /\ asthmaHistory = << >>

\* whether the jsPDF script of each page has loaded
JspdfIn(C, A) ==
  /\ copdJspdf \in C
  /\ asthmaJspdf \in A

CopdFormIn(R, F, E, H, M, I, Q) ==
  /\ ratio \in R
  /\ fev1percent \in F
  /\ exacerbations \in E
  /\ hospitalizations \in H
  /\ mmrcRadio \in M
  /\ copdInhalers \in I
  /\ copdFrequency \in Q

AsthmaFormFields(F, D, N, A) ==
  /\ fev1 \in F
  /\ daytime \in D
  /\ nighttime \in N
  /\ activity \in A

AsthmaFormIn(F, D, N, A) ==
  /\ AsthmaFormFields(F, D, N, A)
  /\ \E inh \in InhalerForms(asthmaScript) :
       /\ asthmaInhalers = inh.checked
       /\ asthmaFrequency = inh.freqs

CopdFormEmpty ==
  CopdFormIn({<< >>}, {<< >>}, {<< >>}, {<< >>}, {NoRadio}, {<< >>}, {<< >>})

\* every frequency field of the loaded script's page, empty
NoFrequencies(script) ==
  IF script = "asthma.js" THEN [id \in InhalerIds |-> << >>]
  ELSE [id \in {"frequency"} |-> << >>]

AsthmaFormEmpty ==
  /\ AsthmaFormFields({<< >>}, {""}, {""}, {""})
  /\ asthmaInhalers = << >>
  /\ asthmaFrequency = NoFrequencies(asthmaScript)

\* ------------------------------------------------------------------------
\* Specifications
\* ------------------------------------------------------------------------

\* computeCOPD applied to every form over the value sets
InitCopd ==
  /\ CopdLoaded
  /\ JspdfIn({TRUE}, {TRUE})
  /\ CopdFormIn(RatioValues, Fev1PercentValues, ExacerbationValues,
                HospitalizationValues, MmrcValues, CopdInhalerValues, FrequencyValues)
  /\ AsthmaLoaded
  /\ asthmaScript = "asthma.js"
  /\ AsthmaFormEmpty

NextCopd ==
  \/ computeCOPD
  \/ computeCOPD_part000

SpecCopd == InitCopd /\ [][NextCopd]_vars

\* computeAsthmaStage applied to every form over the value sets
InitAsthma ==
  /\ CopdLoaded
  /\ JspdfIn({TRUE}, {TRUE})
  /\ copdScript = "copd.js"
  /\ CopdFormEmpty
  /\ AsthmaLoaded
  /\ AsthmaFormIn(Fev1Values, DaytimeValues, NighttimeValues, ActivityValues)

NextAsthma ==
  \/ computeAsthmaStage
  \/ computeAsthmaStage_part001

SpecAsthma == InitAsthma /\ [][NextAsthma]_vars

\* repeated calls of computeCOPD on a form the user keeps editing
SeqRatioValues == { << "0", ".", "6", "9" >>, << "0", ".", "7" >> }
SeqFev1PercentValues == { << "8", "0" >>, << "7", "9", ".", "9", "9" >> }
SeqMmrcValues == { Radio("1"), Radio("2") }

InitCopdSeq ==
  /\ CopdLoaded
  /\ JspdfIn({TRUE}, {TRUE})
  /\ CopdFormIn(SeqRatioValues, SeqFev1PercentValues, {<< "1" >>}, {<< "0" >>},
                SeqMmrcValues, {<< >>}, FrequencyValues)
  /\ AsthmaLoaded
  /\ asthmaScript = "asthma.js"
  /\ AsthmaFormEmpty

NextCopdSeq ==
  \/ SetRatio(SeqRatioValues)
  \/ SetFev1Percent(SeqFev1PercentValues)
  \/ CheckMmrc(SeqMmrcValues)
  \/ SetCopdFrequency(FrequencyValues)
  \/ computeCOPD
  \/ computeCOPD_part000

SpecCopdSeq == InitCopdSeq /\ [][NextCopdSeq]_vars

\* repeated calls of computeAsthmaStage on a form the user keeps editing
SeqFev1Values == { << "5", "9", ".", "9", "9" >>, << "8", "0" >> }
SeqDaytimeValues == { "<=2", "daily", "constructor" }
SeqNighttimeValues == { "<=2", "often" }
SeqActivityValues == { "none", "some" }

InitAsthmaSeq ==
  /\ CopdLoaded
  /\ JspdfIn({TRUE}, {TRUE})
  /\ copdScript = "copd.js"
  /\ CopdFormEmpty
  /\ AsthmaLoaded
  /\ AsthmaFormFields(SeqFev1Values, SeqDaytimeValues, SeqNighttimeValues,
                      SeqActivityValues)
  /\ asthmaInhalers = << >>
  /\ asthmaFrequency = NoFrequencies(asthmaScript)

NextAsthmaSeq ==
  \/ SetFev1(SeqFev1Values)
  \/ SetDaytime(SeqDaytimeValues)
  \/ SetNighttime(SeqNighttimeValues)
  \/ SetActivity(SeqActivityValues)
  \/ computeAsthmaStage
  \/ computeAsthmaStage_part001

SpecAsthmaSeq == InitAsthmaSeq /\ [][NextAsthmaSeq]_vars

\* both pages in use: calls of either classifier and wizard navigation, in
\* any order
Init ==
  /\ CopdLoaded
  /\ JspdfIn({TRUE}, {TRUE})
  /\ CopdFormIn({<< "0", ".", "6", "9" >>}, SeqFev1PercentValues, {<< "1" >>},
                {<< "0" >>}, {Radio("2")}, {<< >>}, {<< >>})
  /\ AsthmaLoaded
  /\ AsthmaFormFields({<< "8", "0" >>}, {"", "daily"}, {"<=2"}, {"none"})
  /\ asthmaInhalers = << >>
  /\ asthmaFrequency = NoFrequencies(asthmaScript)

Next ==
  \/ SetFev1Percent(SeqFev1PercentValues)
  \/ SetDaytime({"", "daily"})
  \/ computeCOPD
  \/ computeCOPD_part000
  \/ computeAsthmaStage
  \/ computeAsthmaStage_part001
  \/ nextStep
  \/ prevStep

Spec == Init /\ [][Next]_vars

\* both pages as their controls drive them: the COPD form and its submit,
\* the wizard's Next and Previous buttons, and the download buttons once
\* rendered; the jsPDF script of a page may have failed to load
PdfFev1PercentValues == { << >>, << "8", "0" >> }
PdfDaytimeValues == { "", "daily" }

InitPdf ==
  /\ CopdLoaded
  /\ JspdfIn(BOOLEAN, BOOLEAN)
  /\ CopdFormIn({<< "0", ".", "6", "9" >>}, PdfFev1PercentValues, {<< "1" >>},
                {<< "0" >>}, {Radio("2")}, {<< >>}, {<< >>})
  /\ AsthmaLoaded
  /\ AsthmaFormFields({<< "8", "0" >>}, PdfDaytimeValues, {"<=2"}, {"none"})
  /\ asthmaInhalers = << >>
  /\ asthmaFrequency = NoFrequencies(asthmaScript)

NextPdf ==
  \/ SetFev1Percent(PdfFev1PercentValues)
  \/ SetDaytime(PdfDaytimeValues)
  \/ computeCOPD
  \/ computeCOPD_part000
  \/ downloadCopdReportPDF
  \/ nextStep
  \/ prevStep
  \/ downloadAsthmaReportPDF

SpecPdf == InitPdf /\ [][NextPdf]_vars

\* the asthma wizard from page load: the user fills in or clears the field
\* of the step shown and presses Next or Previous, in any order
WizardFev1Values == { << >>, << "8", "0" >> }
WizardDaytimeValues == { "", "daily" }
WizardNighttimeValues == { "", "often" }
WizardActivityValues == { "", "some" }

InitWizard ==
  /\ CopdLoaded
  /\ JspdfIn({TRUE}, {TRUE})
  /\ copdScript = "copd.js"
  /\ CopdFormEmpty
  /\ AsthmaLoaded
  /\ AsthmaFormEmpty

NextWizard ==
  \/ EditFev1(WizardFev1Values)
  \/ EditDaytime(WizardDaytimeValues)
  \/ EditNighttime(WizardNighttimeValues)
  \/ EditActivity(WizardActivityValues)
  \/ nextStep
  \/ prevStep

SpecWizard == InitWizard /\ [][NextWizard]_vars

\* ------------------------------------------------------------------------
\* Properties
\* ------------------------------------------------------------------------

\* the number a rendered `${x}` stands for, in units of 1 / Scale
EchoValue(t) == (IF t.neg THEN -1 ELSE 1) * (t.int * Scale + t.frac)

CopdRendered == copdResultHTML # << >>
AsthmaRendered == asthmaResultHTML # << >>

GoldPairs ==
  { << "GOLD 1 (Mild)", "Airflow obstruction is mild with FEV1 >=80% predicted." >>,
    << "GOLD 2 (Moderate)",
       "Airflow obstruction is moderate with FEV1 between 50% and 79% predicted." >>,
    << "GOLD 3 (Severe)",
       "Airflow obstruction is severe with FEV1 between 30% and 49% predicted." >>,
    << "GOLD 4 (Very Severe)",
       "Airflow obstruction is very severe with FEV1 <30% predicted." >> }

\* C1: every rendered COPD report shows the GOLD grade of the band its FEV1 %
\* lies in (>= 80: GOLD 1, 50 <= . < 80: GOLD 2, 30 <= . < 50: GOLD 3,
\* < 30: GOLD 4), with 80, 50 and 30 themselves in GOLD 1, 2 and 3, next to
\* the description paired with that grade.
C1_GoldBands ==
  CopdRendered =>
    LET b == copdResultHTML[1].base
        f == EchoValue(b.fev1percent)
    IN /\ ~b.fev1percent.isNaN
       /\ << b.goldGrade, b.goldDescription >> \in GoldPairs
       /\ (f >= 80 * Scale) <=> (b.goldGrade = "GOLD 1 (Mild)")
       /\ (50 * Scale <= f /\ f < 80 * Scale) <=> (b.goldGrade = "GOLD 2 (Moderate)")
       /\ (30 * Scale <= f /\ f < 50 * Scale) <=> (b.goldGrade = "GOLD 3 (Severe)")
       /\ (f < 30 * Scale) <=> (b.goldGrade = "GOLD 4 (Very Severe)")
       /\ fev1percent = << "8", "0" >> => b.goldGrade = "GOLD 1 (Mild)"
       /\ fev1percent = << "5", "0" >> => b.goldGrade = "GOLD 2 (Moderate)"
       /\ fev1percent = << "3", "0" >> => b.goldGrade = "GOLD 3 (Severe)"

\* a report for FEV1 % exactly 50 is rendered, with GOLD 2
C1_Witness ==
  /\ CopdRendered
  /\ fev1percent = << "5", "0" >>
  /\ copdResultHTML[1].base.goldGrade = "GOLD 2 (Moderate)"

\* C2: every rendered COPD report shows Group E when hospitalizations >= 1
\* or exacerbations >= 2, whatever the mMRC score; otherwise Group B when
\* mMRC >= 2; otherwise Group A.
C2_AbePriority ==
  CopdRendered =>
    LET b == copdResultHTML[1].base
        e == EchoValue(b.exacerbations)
        h == EchoValue(b.hospitalizations)
        m == EchoValue(b.mmrc)
        risk == h >= 1 * Scale \/ e >= 2 * Scale
    IN /\ ~b.exacerbations.isNaN /\ ~b.hospitalizations.isNaN /\ ~b.mmrc.isNaN
       /\ b.abeGroup \in { "Group A", "Group B", "Group E" }
       /\ risk <=> (b.abeGroup = "Group E")
       /\ (~risk /\ m >= 2 * Scale) <=> (b.abeGroup = "Group B")
       /\ (~risk /\ m < 2 * Scale) <=> (b.abeGroup = "Group A")

\* a report for two exacerbations and mMRC 3 is rendered, with Group E
C2_Witness ==
  /\ CopdRendered
  /\ exacerbations = << "2" >>
  /\ hospitalizations = << "0" >>
  /\ mmrcRadio = Radio("3")
  /\ copdResultHTML[1].base.abeGroup = "Group E"

\* the fields of a COPD form as copdForm lists them
FormRatio(form) == form[1]
FormFev1Percent(form) == form[2]
FormExacerbations(form) == form[3]
FormHospitalizations(form) == form[4]
FormMmrc(form) == form[5]
FormCopdInhalers(form) == form[6]
FormCopdFrequency(form) == form[7]

C4_Recommendation ==
  CopdRendered =>
    LET rec == copdResultHTML[1].recommendation
    IN /\ rec # << >>
       /\ rec = CopdRecommendation(copdResultHTML[1].base.abeGroup)
       /\ rec[Len(rec)] = RescueItem

\* the table value of a recognised category
DaytimeContribution(k) ==
  CASE k = "<=2" -> 1 [] k = "3-6" -> 2 [] k = "daily" -> 3 [] k = "throughout" -> 4
NighttimeContribution(k) ==
  CASE k = "<=2" -> 1 [] k = "3-4" -> 2 [] k = "5+" -> 3 [] k = "often" -> 4
ActivityContribution(k) ==
  CASE k = "none" -> 1 [] k = "minor" -> 2 [] k = "some" -> 3 [] k = "extreme" -> 4

\* the FEV1 band of a rendered asthma report, from its FEV1 line
Fev1Band(base) ==
  IF ~base.showFev1 THEN 1
  ELSE IF EchoValue(base.fev1) < 60 * Scale THEN 4
  ELSE IF EchoValue(base.fev1) < 80 * Scale THEN 3
  ELSE 1

SetMax(S) == CHOOSE m \in S : \A x \in S : m >= x

\* C5: a rendered asthma report for recognised daytime, nighttime and
\* activity categories has as severity the largest of the FEV1 band and the
\* three table values.
C5_SeverityIsMax ==
  ( /\ AsthmaRendered
    /\ daytime \in DaytimeKeys
    /\ nighttime \in NighttimeKeys
    /\ activity \in ActivityKeys )
  => LET base == asthmaResultHTML[1].base
     IN base.severity =
          Int2Num(SetMax({ Fev1Band(base), DaytimeContribution(daytime),
                           NighttimeContribution(nighttime),
                           ActivityContribution(activity) }))

\* the report for FEV1 80, daily daytime symptoms and nothing else: severity 3
C5_Witness ==
  /\ AsthmaRendered
  /\ fev1 = << "8", "0" >>
  /\ daytime = "daily"
  /\ nighttime = "<=2"
  /\ activity = "none"
  /\ asthmaResultHTML[1].base.severity = Int2Num(3)

\* C6: in a rendered asthma report every daytime, nighttime or activity
\* value that is no key of its table counts 1, so that the severity is the
\* largest of the remaining contributions.
C6_UnrecognizedCountsOne ==
  AsthmaRendered =>
    LET base == asthmaResultHTML[1].base
        d == IF daytime \in DaytimeKeys THEN DaytimeContribution(daytime) ELSE 1
        n == IF nighttime \in NighttimeKeys THEN NighttimeContribution(nighttime) ELSE 1
        a == IF activity \in ActivityKeys THEN ActivityContribution(activity) ELSE 1
    IN base.severity = Int2Num(SetMax({ Fev1Band(base), d, n, a }))

StagePairs ==
  { << "Intermittent (Mild) Asthma",
       "Symptoms occur infrequently (<=2 days/week), with minimal nighttime waking (<=2 times/month) and no limitation of activities. Lung function (FEV1) is typically >=80% predicted." >>,
    << "Mild Persistent Asthma",
       "Symptoms are present on 3-6 days per week or 3-4 nights per month. There may be minor limitation of activity and FEV1 is >=80% predicted." >>,
    << "Moderate Persistent Asthma",
       "Symptoms occur daily and nighttime awakenings >=5 times per month. There is some limitation of activities and lung function is between 60-80% predicted." >>,
    << "Severe Persistent Asthma",
       "Symptoms are present throughout the day, nighttime symptoms occur often, activities are extremely limited, and lung function is <=60% predicted." >> }

\* C7: every rendered asthma report has an integer severity in 1..4 and one
\* of the four fixed (name, description) pairs; the default branch of the
\* stage switch is not taken.
C7_SeverityInRange ==
  AsthmaRendered =>
    LET base == asthmaResultHTML[1].base
    IN /\ base.severity \in { Int2Num(k) : k \in 1..4 }
       /\ base.stageCase # "default"
       /\ << base.stageName, base.stageDescription >> \in StagePairs

\* the fields of an asthma form as asthmaForm lists them
FormFev1(form) == form[1]
FormDaytime(form) == form[2]
FormNighttime(form) == form[3]
FormActivity(form) == form[4]

\* y is x with exactly one contributor changed for the worse
Worsened(x, y) ==
  \/ /\ ~isNaN(parseFloat(FormFev1(x))) /\ ~isNaN(parseFloat(FormFev1(y)))
     /\ Lt(parseFloat(FormFev1(y)), parseFloat(FormFev1(x)))
     /\ FormDaytime(x) = FormDaytime(y)
     /\ FormNighttime(x) = FormNighttime(y)
     /\ FormActivity(x) = FormActivity(y)
  \/ /\ FormDaytime(x) \in DaytimeKeys /\ FormDaytime(y) \in DaytimeKeys
     /\ DaytimeContribution(FormDaytime(y)) > DaytimeContribution(FormDaytime(x))
     /\ FormFev1(x) = FormFev1(y)
     /\ FormNighttime(x) = FormNighttime(y)
     /\ FormActivity(x) = FormActivity(y)
  \/ /\ FormNighttime(x) \in NighttimeKeys /\ FormNighttime(y) \in NighttimeKeys
     /\ NighttimeContribution(FormNighttime(y)) > NighttimeContribution(FormNighttime(x))
     /\ FormFev1(x) = FormFev1(y)
     /\ FormDaytime(x) = FormDaytime(y)
     /\ FormActivity(x) = FormActivity(y)
  \/ /\ FormActivity(x) \in ActivityKeys /\ FormActivity(y) \in ActivityKeys
     /\ ActivityContribution(FormActivity(y)) > ActivityContribution(FormActivity(x))
     /\ FormFev1(x) = FormFev1(y)
     /\ FormDaytime(x) = FormDaytime(y)
     /\ FormNighttime(x) = FormNighttime(y)

\* C8: of any two rendered asthma reports whose forms differ in exactly one
\* contributor, worse in the second, the second has a severity greater than
\* or equal to the first.
C8_Monotone ==
  \A i, j \in DOMAIN asthmaHistory :
    Worsened(asthmaHistory[i].input, asthmaHistory[j].input)
      => Ge(asthmaHistory[j].output[1].base.severity,
            asthmaHistory[i].output[1].base.severity)

\* the whole string is a decimal number: [sign] digits [. digits]
WhollyNumeric(s) ==
  LET b == SignLen(s) + 1
      e == DigitsEnd(s, b)
      hasDot == e <= Len(s) /\ s[e] = "."
      f == IF hasDot THEN DigitsEnd(s, e + 1) ELSE e
  IN /\ e > b
     /\ f = Len(s) + 1
     /\ hasDot => f > e + 1

\* C9: a call of computeCOPD with a missing or non-numeric ratio, FEV1 %,
\* exacerbations, hospitalizations or mMRC raises the alert and leaves form
\* and result area as they were; a call with all five present and numeric
\* raises no alert and renders a report.
C9_Validation ==
  [][ IF /\ WhollyNumeric(ratio)
         /\ WhollyNumeric(fev1percent)
         /\ WhollyNumeric(exacerbations)
         /\ WhollyNumeric(hospitalizations)
         /\ mmrcRadio.checked
         /\ WhollyNumeric(mmrcRadio.value)
      THEN /\ copdResultHTML' # << >>
           /\ copdFormDisplay' = "none"
           /\ copdAlert' = copdAlert
      ELSE /\ copdAlert' = AlertFillAll
           /\ UNCHANGED copdView ]_vars

\* C10: calls of a classifier that read the same form render the same
\* content, whatever was called in between.
C10_Idempotent ==
  /\ \A i, j \in DOMAIN copdHistory :
       copdHistory[i].input = copdHistory[j].input
         => copdHistory[i].output = copdHistory[j].output
  /\ \A i, j \in DOMAIN asthmaHistory :
       asthmaHistory[i].input = asthmaHistory[j].input
         => asthmaHistory[i].output = asthmaHistory[j].output

\* each classifier was called twice on the same form, the wizard having
\* moved off its first step
C10_Witness ==
  /\ Len(copdHistory) = 2
  /\ copdHistory[1].input = copdHistory[2].input
  /\ Len(asthmaHistory) = 2
  /\ asthmaHistory[1].input = asthmaHistory[2].input
  /\ currentStep > 1

\* C11: a page saves a PDF document only when a call of its classifier has
\* rendered a report before (a call that failed validation rendered none and
\* is not in the history), and the text of the saved document is the text
\* of the report rendered last.
C11_ExportAfterRender ==
  [][ /\ copdPdf' # copdPdf =>
           /\ copdHistory # << >>
           /\ copdPdf'[1].text = InnerText(copdHistory[Len(copdHistory)].output)
      /\ asthmaPdf' # asthmaPdf =>
           /\ asthmaHistory # << >>
           /\ asthmaPdf'[1].text = InnerText(asthmaHistory[Len(asthmaHistory)].output) ]_vars

\* both pages saved a document, the COPD page after a call that failed
\* validation
C11_Witness ==
  /\ copdPdf # << >>
  /\ copdAlert = AlertFillAll
  /\ asthmaPdf # << >>

\* a step of the asthma page that classified: it rendered into the result
\* area or added to the history of calls
AsthmaClassified ==
  \/ asthmaView' # asthmaView
  \/ asthmaHistory' # asthmaHistory

\* C12: a step of the wizard classifies only when currentStep is totalSteps
\* and the active step passes validation, and it leaves currentStep and the
\* step shown as they were; while the active step fails validation no step
\* classifies or advances currentStep, and the step that raises the alert
\* leaves the wizard as it was.
C12_ClassifyOnlyAtLastStep ==
  [][ /\ AsthmaClassified =>
           /\ currentStep = totalSteps
           /\ validateCurrentStep
           /\ UNCHANGED wizard
      /\ ~validateCurrentStep =>
           /\ ~AsthmaClassified
           /\ currentStep' <= currentStep
           /\ asthmaAlert' # asthmaAlert =>
                /\ asthmaAlert' = AlertComplete
                /\ UNCHANGED wizard ]_vars

\* a report was rendered at the last step after Next had been refused on an
\* empty required field
C12_Witness ==
  /\ asthmaResultHTML # << >>
  /\ asthmaAlert = AlertComplete
  /\ currentStep = totalSteps

\* C13: with fields edited only on their own step, every step before
\* currentStep has its required fields filled in, and every call that
\* classified read a form whose required fields were all filled in.
C13_RequiredFilled ==
  /\ \A step \in 1..(currentStep - 1) :
       \A i \in DOMAIN RequiredValues(step) : RequiredValues(step)[i] # ""
  /\ \A i \in DOMAIN asthmaHistory :
       /\ FormDaytime(asthmaHistory[i].input) # ""
       /\ FormNighttime(asthmaHistory[i].input) # ""
       /\ FormActivity(asthmaHistory[i].input) # ""

\* a form was classified, then the user went back to the second step and
\* cleared its required field
C13_Witness ==
  /\ asthmaHistory # << >>
  /\ currentStep = 2
  /\ daytime = ""
  /\ nighttime # ""

\* C14: currentStep stays within 1..totalSteps; no step takes it below 1
\* from 1 or above totalSteps from totalSteps.
C14_StepInRange ==
  /\ [](currentStep \in 1..totalSteps)
  /\ [][ /\ currentStep = 1 => currentStep' >= currentStep
         /\ currentStep = totalSteps => currentStep' <= currentStep ]_vars

\* Next was pressed again at the last step after the submission
C14_Witness ==
  /\ currentStep = totalSteps
  /\ Len(asthmaHistory) = MaxHistory

====
